---- MODULE Spec2Model ----
(***************************************************************************)
(* A model of webhook_listener.py: the Flask handler of POST /webhook, the *)
(* signature check verify_webhook_signature and the deploy-file writer     *)
(* write_deploy_instruction, with requests handled on concurrent threads.  *)
(*                                                                         *)
(* Python values are encoded uniformly as sequences of strings whose head  *)
(* is a type tag: <<"None">>, <<"str", c1, ..., cn>> (a string of the      *)
(* characters c1..cn; a character may stand for a fixed chunk of text such *)
(* as "sha256" or "refs/"), and <<"dict", ...>>.  Request bodies are       *)
(* sequences of byte chunks.                                               *)
(***************************************************************************)
EXTENDS Integers, Sequences, FiniteSets, TLC

\* ------------------------------------------------------------------ bounds
DigestLen == 3        \* hex characters kept of a digest
MaxRequests == 2      \* requests received in one run
MaxClock == 1         \* last value of the clock behind datetime.utcnow()
MaxRefLen == 4        \* pieces in a ref handed to the branch expression

\* ------------------------------------------------------------ Python values
None == <<"None">>
Str(chars) == <<"str">> \o chars
IsStr(v) == v[1] = "str"
Chars(v) == Tail(v)
Truthy(v) == v # None /\ v # Str(<<>>)

NonAscii == "U+00E9"
HexDigits == <<"0", "1", "2", "3", "4", "5", "6", "7",
               "8", "9", "a", "b", "c", "d", "e", "f">>
HexSet == {HexDigits[i] : i \in 1..Len(HexDigits)}

\* s[lo..hi] of a sequence, empty when lo > hi
Slice(s, lo, hi) == [i \in 1..(IF hi >= lo THEN hi - lo + 1 ELSE 0) |-> s[lo + i - 1]]

\* does the sequence `part` occur in `whole` as a contiguous run
Contains(whole, part) ==
    \E i \in 1..(Len(whole) - Len(part) + 1) : Slice(whole, i, i + Len(part) - 1) = part

\* ---------------------------------------------------------- request bodies
\* A byte chunk of a body: k names the chunk, v is the JSON value a member
\* chunk carries (encoded as a Python value), <<>> for the other chunks.
Chunk(k, v) == [k |-> k, v |-> v]
LB == Chunk("{", <<>>)
RB == Chunk("}", <<>>)
NULLLIT == Chunk("null", <<>>)
JUNK == Chunk("junk", <<>>)
XFF == Chunk("xFF", <<>>)          \* a byte that is not valid UTF-8

Keys == {"ref", "after", "repository", "pusher"}

RefMain == Str(<<"refs/", "heads/", "main">>)
RefNested == Str(<<"refs/", "heads/", "refs/", "heads/", "main">>)
NameDict(n) == <<"dict", "name", "str", n>>

BodyPush == <<LB, Chunk("ref", RefMain), Chunk("after", Str(<<"c1">>)),
              Chunk("repository", NameDict("r")), Chunk("pusher", NameDict("u")), RB>>
BodyNested == <<LB, Chunk("ref", RefNested), Chunk("after", Str(<<"c1">>)),
                Chunk("repository", NameDict("r")), Chunk("pusher", NameDict("u")), RB>>
BodyEmptyObj == <<LB, RB>>
BodyRepoNull == <<LB, Chunk("ref", RefMain), Chunk("repository", None), RB>>
BodyNull == <<NULLLIT>>
BodyJunk == <<JUNK>>
BodyNotUtf8 == <<XFF>>

\* the bodies of the requests of every kind
MainBodies == <<BodyPush, BodyNested, BodyEmptyObj, BodyRepoNull, BodyNull, BodyJunk, BodyNotUtf8>>
BodySet == {MainBodies[i] : i \in 1..Len(MainBodies)}

\* push bodies by the members they carry: ref and after are there (1) or not
\* (0); repository and pusher are not there (0), are {} (1) or {'name': n} (2)
FieldBody(ref, after, repository, pusher) ==
    <<LB>>
    \o (IF ref = 1 THEN <<Chunk("ref", RefMain)>> ELSE <<>>)
    \o (IF after = 1 THEN <<Chunk("after", Str(<<"c1">>))>> ELSE <<>>)
    \o (IF repository = 1 THEN <<Chunk("repository", <<"dict">>)>>
        ELSE IF repository = 2 THEN <<Chunk("repository", NameDict("r"))>> ELSE <<>>)
    \o (IF pusher = 1 THEN <<Chunk("pusher", <<"dict">>)>>
        ELSE IF pusher = 2 THEN <<Chunk("pusher", NameDict("u"))>> ELSE <<>>)
    \o <<RB>>
FieldBodies ==
    [i \in 1..(2 * 2 * 3 * 3) |->
        FieldBody((i - 1) % 2, ((i - 1) \div 2) % 2, ((i - 1) \div 4) % 3, ((i - 1) \div 12) % 3)]
FieldBodySet == {FieldBodies[i] : i \in 1..Len(FieldBodies)}

\* every body a request of the model can carry, in a fixed order
Bodies == MainBodies \o FieldBodies

\* secrets the sender or the receiver can hold (non-empty strings)
Secrets == <<Str(<<"k1">>), Str(<<"k2">>)>>
SecretSet == {Secrets[i] : i \in 1..Len(Secrets)}

IndexOf(x, universe) == CHOOSE i \in 1..Len(universe) : universe[i] = x

VARIABLES
    WEBHOOK_SECRET,   \* os.getenv('WEBHOOK_SECRET'): None, "" or a string
    dirExists,        \* whether os.path.dirname(DEPLOY_FILE) exists
    deployFile,       \* DEPLOY_FILE: absent, empty (opened for writing) or one record
    now,              \* the clock read by datetime.utcnow()
    nreq,             \* requests received so far
    threads,          \* the request handled on each handler thread
    lastWriter,       \* history: the thread whose open or dump last changed the file, 0 at start
    vpc,              \* position of the direct call of verify_webhook_signature
    vKey,             \* the key the sender signed with
    vSigned,          \* the body the sender signed
    vBody,            \* payload_body handed to the call
    vHeader,          \* signature_header handed to the call
    vResult,          \* what the call returned or raised
    bpc,              \* position of the evaluation of the branch expression on its own
    bRef,             \* payload['ref'] handed to it
    bBranch           \* the branch it gave

\* ------------------------------------------------ verify_webhook_signature
RECURSIVE ToHex(_, _)
ToHex(n, len) ==
    IF len = 0 THEN <<>> ELSE Append(ToHex(n \div 16, len - 1), HexDigits[(n % 16) + 1])

\* hmac.new(key, msg, sha256).hexdigest(): a fixed-length lowercase hex string,
\* one-to-one in (key, msg) over the keys and bodies of the model
hmac_hexdigest(key, msg) ==
    ToHex((IndexOf(key, Secrets) - 1) * Len(Bodies) + IndexOf(msg, Bodies) - 1, DigestLen)

\* str.split('=', 1): the parts around the first '=', one part when there is none
HasEq(chars) == \E i \in 1..Len(chars) : chars[i] = "="
FirstEq(chars) == CHOOSE i \in 1..Len(chars) : chars[i] = "=" /\ \A j \in 1..(i - 1) : chars[j] # "="
SplitEq(chars) ==
    IF HasEq(chars)
    THEN <<Slice(chars, 1, FirstEq(chars) - 1), Slice(chars, FirstEq(chars) + 1, Len(chars))>>
    ELSE <<chars>>

IsAscii(chars) == \A i \in 1..Len(chars) : chars[i] # NonAscii

LogLine(line, level, prefix, value) == [line |-> line, level |-> level, text |-> <<prefix>> \o value]
Returned(ret, log) == [kind |-> "return", val |-> ret, exc |-> <<>>, log |-> log]
Raised(exc, log) == [kind |-> "raise", val |-> "", exc |-> exc, log |-> log]

\* a comparison that looks at the lengths only
compare_length(a, b) == IF Len(a) = Len(b) THEN "True" ELSE "False"

\* hmac.compare_digest(a, b) on two str: TypeError unless both are ASCII
compare_digest(a, b) ==
    IF IsAscii(a) /\ IsAscii(b) THEN (IF a = b THEN "True" ELSE "False") ELSE "TypeError"

\* lines 37-60: the header checks and the comparison, the secret being set
verify_header(payload_body, signature_header) ==
    IF ~Truthy(signature_header)
    THEN Returned("False", <<LogLine(38, "error", "No signature header received", <<>>)>>)
    ELSE IF Len(SplitEq(Chars(signature_header))) # 2
    THEN Returned("False", <<LogLine(44, "error", "Invalid signature format: ", Chars(signature_header))>>)
    ELSE LET sha_name == SplitEq(Chars(signature_header))[1]
             signature == SplitEq(Chars(signature_header))[2]
             expected_signature == hmac_hexdigest(WEBHOOK_SECRET, payload_body)
             log == <<LogLine(55, "info", "Received signature: ", signature),
                      LogLine(56, "info", "Expected signature: ", expected_signature),
                      LogLine(57, "info", "Secret being used: ", Chars(WEBHOOK_SECRET)),
                      LogLine(58, "info", "Payload length: ", <<"len">>)>>
         IN  IF sha_name # <<"sha256">>
             THEN Returned("False", <<LogLine(48, "error", "Invalid hash algorithm: ", sha_name)>>)
             ELSE IF compare_digest(expected_signature, signature) = "TypeError"
                  THEN Raised(<<"TypeError", "comparing strings with non-ASCII characters is not supported">>, log)
                  ELSE Returned(compare_digest(expected_signature, signature), log)

ConfigError ==
    Raised(<<"ValueError", "WEBHOOK_SECRET not configured">>,
           <<LogLine(34, "error", "WEBHOOK_SECRET not configured", <<>>)>>)

\* the header is looked at before the secret
verify_header_first(payload_body, signature_header) ==
    IF ~Truthy(signature_header) THEN verify_header(payload_body, signature_header)
    ELSE IF ~Truthy(WEBHOOK_SECRET) THEN ConfigError
    ELSE verify_header(payload_body, signature_header)

verify_webhook_signature(payload_body, signature_header) ==
    IF ~Truthy(WEBHOOK_SECRET) THEN ConfigError
    ELSE verify_header(payload_body, signature_header)

\* ------------------------------------------------------------- the handler
Threads == {1, 2}

Push == Str(<<"push">>)
Ping == Str(<<"ping">>)

\* the key the sender of a request signs with
SenderKey == IF Truthy(WEBHOOK_SECRET) THEN WEBHOOK_SECRET ELSE Secrets[1]

ReplaceAt(s, i, c) == [j \in 1..Len(s) |-> IF j = i THEN c ELSE s[j]]
OtherHex(c) == HexDigits[(IndexOf(c, HexDigits) % 16) + 1]

\* the X-Hub-Signature-256 values a request for `body` can carry
SigHeaders(key, body) ==
    LET d == hmac_hexdigest(key, body)
    IN  { None,
          Str(<<"sha256">> \o d),
          Str(<<"sha1", "=">> \o d),
          Str(<<"sha256", "=">> \o d),
          Str(<<"sha256", "=">> \o ReplaceAt(d, 1, OtherHex(d[1]))),
          Str(<<"sha256", "=">> \o ReplaceAt(d, 1, NonAscii)) }

Request(body, sig, event, ctype) == [body |-> body, sig |-> sig, event |-> event, ctype |-> ctype]
NoRequest == Request(<<>>, None, None, "")

Response(status, body) == [status |-> status, body |-> body]
NoResponse == Response(0, <<>>)
jsonify(status, message) == <<"status", status, "message", message>>

\* a parsed payload: t is the Python type, m the members of a dict
Payload(t, m) == [t |-> t, m |-> m]
NoMembers == [k \in {} |-> None]
NoPayload == Payload("unset", NoMembers)

DeployData(ts, repository, branch, commit, author) ==
    [timestamp |-> ts, repository |-> repository, branch |-> branch,
     commit |-> commit, author |-> author, status |-> "pending"]
NoData == [timestamp |-> 0, repository |-> None, branch |-> None,
           commit |-> None, author |-> None, status |-> ""]

Thread(pc, req, steps, out, payload, deploy_data, resp) ==
    [pc |-> pc, req |-> req, steps |-> steps, out |-> out, payload |-> payload,
     deploy_data |-> deploy_data, resp |-> resp, current_data |-> NoData]
Idle == Thread("idle", NoRequest, <<>>, <<>>, NoPayload, NoData, NoResponse)

\* bytes.decode('utf-8') succeeds
IsUtf8(body) == \A i \in 1..Len(body) : body[i] # XFF

\* json.loads: an object of member chunks, the literal null, or a failure
IsJsonObject(body) ==
    /\ Len(body) >= 2
    /\ body[1] = LB
    /\ body[Len(body)] = RB
    /\ \A i \in 2..(Len(body) - 1) : body[i].k \in Keys
LastOf(body, key) ==
    CHOOSE i \in 2..(Len(body) - 1) :
        body[i].k = key /\ \A j \in (i + 1)..(Len(body) - 1) : body[j].k # key
json_loads(body) ==
    IF IsJsonObject(body)
    THEN Returned(Payload("dict", [key \in {body[i].k : i \in 2..(Len(body) - 1)} |->
                                       body[LastOf(body, key)].v]), <<>>)
    ELSE IF body = <<NULLLIT>>
    THEN Returned(Payload("None", NoMembers), <<>>)
    ELSE Raised(<<"HTTPException", "400 Bad Request">>, <<>>)

\* request.get_json(): the content type is looked at first.  On a content type
\* that is not JSON the installed Flask either raises (2.1 and later) or
\* returns None (before 2.1): the outcomes are a set.
get_json(req) ==
    IF req.ctype # "application/json"
    THEN { Raised(<<"HTTPException", "415 Unsupported Media Type">>, <<>>),
           Returned(Payload("None", NoMembers), <<>>) }
    ELSE { json_loads(req.body) }

\* dict.get(key, default) on a payload; AttributeError when it is no dict
HasGet(payload) == payload.t = "dict"
Get(payload, key, default) == IF key \in DOMAIN payload.m THEN payload.m[key] ELSE default
\* .get('name') on a value: a dict has it, None and str do not
ValueHasGet(v) == v[1] = "dict"
GetName(v) == IF Len(v) >= 2 THEN Slice(v, 3, Len(v)) ELSE None
EmptyDict == <<"dict">>

\* abort(code) raises an HTTPException
abort(code) == <<"HTTPException", code>>

\* the classes `except Exception` catches; werkzeug's HTTPException is one
ExceptionClasses == {"ValueError", "TypeError", "UnicodeDecodeError", "AttributeError",
                     "OSError", "JSONDecodeError", "HTTPException"}

HeaderLog(req) ==
    (IF req.sig = None THEN <<>>
     ELSE <<LogLine(130, "info", "X-Hub-Signature-256: ", Chars(req.sig))>>)
    \o <<LogLine(130, "info", "X-GitHub-Event: ", Chars(req.event)),
         LogLine(130, "info", "Content-Type: ", <<req.ctype>>)>>

RawPayloadLog(req) ==
    <<LogLine(134, "info", "Raw payload: ", [i \in 1..Len(req.body) |-> req.body[i].k])>>

\* lines 176-182: the handler's `except Exception`
webhook_except(req, exc, steps, out) ==
    IF exc[1] \in ExceptionClasses
    THEN Thread("done", req, steps \o <<"except">>,
                out \o <<LogLine(177, "error", "Webhook processing error: ", Tail(exc))>>,
                NoPayload, NoData,
                Response(500, jsonify("error", "Internal server error")))
    ELSE Thread("done", req, steps, out, NoPayload, NoData,
                Response(IF exc = abort("401 Unauthorized") THEN 401 ELSE 500, Tail(exc)))

\* lines 126-160: the handler up to the call of write_deploy_instruction
webhook_front(req, j) ==
    IF ~IsUtf8(req.body)
    THEN webhook_except(req, <<"UnicodeDecodeError", "invalid start byte">>,
                        <<"get_data", "decode">>, HeaderLog(req))
    ELSE
    LET v == verify_webhook_signature(req.body, req.sig)
        out1 == HeaderLog(req) \o RawPayloadLog(req) \o v.log
        steps1 == <<"get_data", "decode", "verify">>
    IN
    IF v.kind = "raise"
    THEN webhook_except(req, v.exc, steps1, out1)
    ELSE IF v.val # "True"
    THEN webhook_except(req, abort("401 Unauthorized"), steps1 \o <<"abort">>,
                        out1 \o <<LogLine(139, "error", "Invalid webhook signature", <<>>)>>)
    ELSE
    LET steps2 == steps1 \o <<"get_json">>
    IN
    IF j.kind = "raise"
    THEN Thread("done", req, steps2,
                out1 \o <<LogLine(149, "error", "Failed to parse JSON payload: ", Tail(j.exc))>>,
                NoPayload, NoData, Response(400, <<"Invalid JSON payload">>))
    ELSE IF req.event # Push
    THEN Thread("done", req, steps2 \o <<"event_type">>,
                out1 \o <<LogLine(155, "info", "Ignoring non-push event: ", Chars(req.event))>>,
                j.val, NoData, Response(200, <<"OK">>))
    ELSE IF ~HasGet(j.val) \/ ~ValueHasGet(Get(j.val, "repository", EmptyDict))
    THEN webhook_except(req, <<"AttributeError", "object has no attribute 'get'">>,
                        steps2 \o <<"event_type">>, out1)
    ELSE Thread("wdi_check", req, steps2 \o <<"event_type", "write_deploy_instruction">>,
                out1 \o <<LogLine(159, "info", "Received push event for repository: ",
                                  Tail(GetName(Get(j.val, "repository", EmptyDict)))),
                         LogLine(160, "info", "Payload: ", <<"json">>)>>,
                j.val, NoData, NoResponse)

vars == <<WEBHOOK_SECRET, dirExists, deployFile, now, nreq, threads, lastWriter,
          vpc, vKey, vSigned, vBody, vHeader, vResult, bpc, bRef, bBranch>>
verifyVars == <<vpc, vKey, vSigned, vBody, vHeader, vResult, bpc, bRef, bBranch>>

\* POST /webhook arrives on an idle handler thread, the first of the idle ones
\* (the threads are alike, so which one takes it makes no difference).  A
\* thread whose response is out is recycled before the next request is taken:
\* recycling touches that thread alone, so taking it first loses no behaviour
\* of the others.
webhook(t) ==
    /\ threads[t].pc = "idle"
    /\ \A u \in Threads : u < t => threads[u].pc # "idle"
    /\ \A u \in Threads : threads[u].pc # "done"
    /\ nreq < MaxRequests
    /\ \E body \in BodySet, event \in {Push, Ping}, ctype \in {"application/json", "text/plain"} :
         \E sig \in SigHeaders(SenderKey, body) :
            \E j \in get_json(Request(body, sig, event, ctype)) :
               threads' = [threads EXCEPT ![t] = webhook_front(Request(body, sig, event, ctype), j)]
    /\ nreq' = nreq + 1
    /\ UNCHANGED <<WEBHOOK_SECRET, dirExists, deployFile, now, lastWriter, verifyVars>>

\* POST /webhook with a push that verifies, sent as JSON, whose body carries
\* some of the members ref, after, repository and pusher
webhook_push(t) ==
    /\ threads[t].pc = "idle"
    /\ \A u \in Threads : u < t => threads[u].pc # "idle"
    /\ \A u \in Threads : threads[u].pc # "done"
    /\ nreq < MaxRequests
    /\ \E body \in FieldBodySet :
         LET req == Request(body, Str(<<"sha256", "=">> \o hmac_hexdigest(SenderKey, body)),
                            Push, "application/json")
         IN  \E j \in get_json(req) :
                threads' = [threads EXCEPT ![t] = webhook_front(req, j)]
    /\ nreq' = nreq + 1
    /\ UNCHANGED <<WEBHOOK_SECRET, dirExists, deployFile, now, lastWriter, verifyVars>>

\* -------------------------------------------------- write_deploy_instruction
\* str.replace(old, ''): every non-overlapping occurrence of old is removed
RECURSIVE Replace(_, _)
Replace(chars, old) ==
    IF Len(chars) < Len(old) \/ Len(old) = 0 THEN chars
    ELSE IF Slice(chars, 1, Len(old)) = old
         THEN Replace(Slice(chars, Len(old) + 1, Len(chars)), old)
         ELSE <<chars[1]>> \o Replace(Tail(chars), old)

RefsHeads == <<"refs/", "heads/">>

\* payload[key] in place of payload.get(key): a missing key raises
deploy_data_subscript(payload) == \E key \in Keys : key \notin DOMAIN payload.m

\* lines 78-85: the record built from the payload, or the AttributeError of
\* a .get / .replace on a value that has none
deploy_data_raises(payload) ==
    \/ ~IsStr(Get(payload, "ref", Str(<<>>)))
    \/ ~ValueHasGet(Get(payload, "repository", EmptyDict))
    \/ ~ValueHasGet(Get(payload, "pusher", EmptyDict))
deploy_data_of(payload, ts) ==
    DeployData(ts,
               GetName(Get(payload, "repository", EmptyDict)),
               Str(Replace(Chars(Get(payload, "ref", Str(<<>>))), RefsHeads)),
               Get(payload, "after", None),
               GetName(Get(payload, "pusher", EmptyDict)))

\* length of the JSON text of a value and of a record (the timestamp and the
\* punctuation have a fixed length and are left out)
RECURSIVE Width(_)
Width(chars) == IF chars = <<>> THEN 0 ELSE Len(chars[1]) + Width(Tail(chars))
JsonLen(v) == IF IsStr(v) THEN 2 + Width(Chars(v)) ELSE 4
RecordLen(rec) ==
    JsonLen(rec.repository) + JsonLen(rec.branch) + JsonLen(rec.commit) + JsonLen(rec.author)

Data(rec) == [st |-> "data", rec |-> rec, len |-> RecordLen(rec)]

\* json.load of the file as it is: the record, or an exception
Loads(file) == file.st = "data"

\* the statement a thread is at has run and the thread moves on to `pc`
Step(t, pc, log) ==
    [threads EXCEPT ![t].pc = pc,
                    ![t].steps = @ \o <<threads[t].pc>>,
                    ![t].out = @ \o log]

\* lines 117-122 followed by 169-174: write_deploy_instruction returned False
\* a failure that is logged while the run stays at the step that failed
ReturnFalse_stay(t, step, log) ==
    [threads EXCEPT ![t].steps = @ \o <<threads[t].pc, step>>,
                    ![t].out = @ \o log]

\* lines 117-122 followed by 169-174: the except returns False and webhook
\* answers 500
ReturnFalse(t, step, log) ==
    [threads EXCEPT ![t].pc = "done",
                    ![t].steps = @ \o <<threads[t].pc, step>>,
                    ![t].out = @ \o log \o <<LogLine(170, "error", "Failed to write deployment instructions", <<>>)>>,
                    ![t].resp = Response(500, jsonify("error", "Failed to write deployment instructions"))]

\* lines 66-75: look at the file as it is (current_data is assigned when the
\* file loads); a failure to read it is only logged
wdi_check(t) ==
    /\ threads[t].pc = "wdi_check"
    /\ threads' = [Step(t, "wdi_build",
                       IF deployFile.st = "absent"
                       THEN <<LogLine(75, "info", "Deploy file does not exist yet", <<>>)>>
                       ELSE IF Loads(deployFile)
                       THEN <<LogLine(71, "info", "Current deploy file content: ", <<"json">>)>>
                       ELSE <<LogLine(73, "error", "Error reading current deploy file: ", <<"JSONDecodeError">>)>>)
                     EXCEPT ![t].current_data = IF Loads(deployFile) THEN deployFile.rec ELSE NoData]
    /\ UNCHANGED <<WEBHOOK_SECRET, dirExists, deployFile, now, nreq, lastWriter, verifyVars>>

\* lines 77-87: build deploy_data, reading the clock
wdi_build(t) ==
    /\ threads[t].pc = "wdi_build"
    /\ IF deploy_data_raises(threads[t].payload)
       THEN /\ threads' = ReturnFalse(t, "build_raised",
                              <<LogLine(118, "error", "Failed to write deployment instructions: ", <<"AttributeError">>)>>)
            /\ now' = now
       ELSE \E ts \in now..MaxClock :
               /\ now' = ts
               /\ threads' = [Step(t, "wdi_makedirs",
                                   <<LogLine(87, "info", "Created new deploy data: ", <<"json">>)>>)
                                 EXCEPT ![t].deploy_data = deploy_data_of(threads[t].payload, ts)]
    /\ UNCHANGED <<WEBHOOK_SECRET, dirExists, deployFile, nreq, lastWriter, verifyVars>>

\* lines 89-95: os.makedirs(deploy_dir, exist_ok=True) and os.stat
wdi_makedirs(t) ==
    /\ threads[t].pc = "wdi_makedirs"
    /\ \/ /\ dirExists' = TRUE
          /\ threads' = Step(t, "wdi_open", <<LogLine(95, "info", "Directory permissions: ", <<"mode">>)>>)
       \/ /\ ~dirExists
          /\ dirExists' = dirExists
          /\ threads' = ReturnFalse(t, "makedirs_raised",
                            <<LogLine(118, "error", "Failed to write deployment instructions: ", <<"OSError">>)>>)
    /\ UNCHANGED <<WEBHOOK_SECRET, deployFile, now, nreq, lastWriter, verifyVars>>

\* line 99: open(DEPLOY_FILE, 'w') truncates the file
wdi_open(t) ==
    /\ threads[t].pc = "wdi_open"
    /\ \/ /\ deployFile' = [st |-> "empty", rec |-> NoData, len |-> 0]
          /\ lastWriter' = t
          /\ threads' = Step(t, "wdi_dump", <<LogLine(98, "info", "Writing new deploy data...", <<>>)>>)
       \/ /\ deployFile' = deployFile
          /\ lastWriter' = lastWriter
          /\ threads' = ReturnFalse(t, "open_raised",
                            <<LogLine(118, "error", "Failed to write deployment instructions: ", <<"OSError">>)>>)
    /\ UNCHANGED <<WEBHOOK_SECRET, dirExists, now, nreq, verifyVars>>

\* line 100: json.dump and the close of the file write the text at offset 0 of
\* the file as it is now; text another writer put there since the open stays
\* beyond the end of this one
wdi_dump(t) ==
    /\ threads[t].pc = "wdi_dump"
    /\ \/ /\ deployFile' =
               IF deployFile.len > RecordLen(threads[t].deploy_data)
               THEN [st |-> "mixed", rec |-> NoData, len |-> deployFile.len]
               ELSE Data(threads[t].deploy_data)
          /\ lastWriter' = t
          /\ threads' = Step(t, "wdi_verify", <<LogLine(103, "info", "Verifying write operation...", <<>>)>>)
       \/ /\ deployFile' = deployFile
          /\ lastWriter' = lastWriter
          /\ threads' = ReturnFalse(t, "dump_raised",
                            <<LogLine(118, "error", "Failed to write deployment instructions: ", <<"OSError">>)>>)
    /\ UNCHANGED <<WEBHOOK_SECRET, dirExists, now, nreq, verifyVars>>

\* a read-back that is not compared
written_any(written_data, deploy_data) == TRUE

\* line 108: written_data != deploy_data
written_matches(written_data, deploy_data) == written_data = deploy_data

\* lines 102-116 followed by 163-168: read the file back and compare
wdi_verify(t) ==
    /\ threads[t].pc = "wdi_verify"
    /\ threads' =
         IF deployFile.st = "absent"
         THEN ReturnFalse(t, "missing", <<LogLine(112, "error", "Deploy file does not exist after write!", <<>>)>>)
         ELSE IF ~Loads(deployFile)
         THEN ReturnFalse(t, "load_raised",
                  <<LogLine(118, "error", "Failed to write deployment instructions: ", <<"JSONDecodeError">>)>>)
         ELSE IF ~written_matches(deployFile.rec, threads[t].deploy_data)
         THEN ReturnFalse(t, "mismatch",
                  <<LogLine(107, "info", "Written deploy file content: ", <<"json">>),
                    LogLine(109, "error", "Written data does not match intended data!", <<>>)>>)
         ELSE [threads EXCEPT ![t].pc = "done",
                              ![t].steps = @ \o <<"wdi_verify", "returned_true">>,
                              ![t].out = @ \o <<LogLine(107, "info", "Written deploy file content: ", <<"json">>),
                                                LogLine(115, "info", "Successfully wrote deployment instructions to ", <<"/deploy/deploy.json">>)>>,
                              ![t].resp = Response(200, jsonify("success", "Deployment instructions written successfully"))]
    /\ UNCHANGED <<WEBHOOK_SECRET, dirExists, deployFile, now, nreq, lastWriter, verifyVars>>

\* the response has been sent; the thread is free for the next request
Complete(t) ==
    /\ threads[t].pc = "done"
    /\ threads' = [threads EXCEPT ![t] = Idle]
    /\ UNCHANGED <<WEBHOOK_SECRET, dirExists, deployFile, now, nreq, lastWriter, verifyVars>>

VerifyOff ==
    /\ vpc = "off"
    /\ vKey = Secrets[1]
    /\ vSigned = Bodies[1]
    /\ vBody = Bodies[1]
    /\ vHeader = None
    /\ vResult = Returned("", <<>>)

BranchOff ==
    /\ bpc = "off"
    /\ bRef = <<>>
    /\ bBranch = None

Init ==
    /\ WEBHOOK_SECRET \in {None, Str(<<>>), Secrets[1]}
    /\ dirExists \in BOOLEAN
    /\ deployFile = [st |-> "absent", rec |-> NoData, len |-> 0]
    /\ now = 0
    /\ nreq = 0
    /\ threads = [t \in Threads |-> Idle]
    /\ lastWriter = 0
    /\ VerifyOff
    /\ BranchOff

Next ==
    \E t \in Threads :
        \/ webhook(t)
        \/ wdi_check(t)
        \/ wdi_build(t)
        \/ wdi_makedirs(t)
        \/ wdi_open(t)
        \/ wdi_dump(t)
        \/ wdi_verify(t)
        \/ Complete(t)

Spec == Init /\ [][Next]_vars

\* --------------------------------------- requests handled one after another
\* a request is taken only when no other is being handled
webhook_alone(t) ==
    /\ \A u \in Threads : threads[u].pc = "idle"
    /\ webhook(t)

SeqNext ==
    \E t \in Threads :
        \/ webhook_alone(t)
        \/ wdi_check(t)
        \/ wdi_build(t)
        \/ wdi_makedirs(t)
        \/ wdi_open(t)
        \/ wdi_dump(t)
        \/ wdi_verify(t)
        \/ Complete(t)

SpecSeq == Init /\ [][SeqNext]_vars

\* ------------------------------------- pushes that lack members, one by one
\* the secret is set and one request is followed from arrival to response
PushesInit ==
    /\ WEBHOOK_SECRET = Secrets[1]
    /\ dirExists \in BOOLEAN
    /\ deployFile = [st |-> "absent", rec |-> NoData, len |-> 0]
    /\ now = 0
    /\ nreq = MaxRequests - 1
    /\ threads = [t \in Threads |-> Idle]
    /\ lastWriter = 0
    /\ VerifyOff
    /\ BranchOff

PushesNext ==
    \E t \in Threads :
        \/ webhook_push(t)
        \/ wdi_check(t)
        \/ wdi_build(t)
        \/ wdi_makedirs(t)
        \/ wdi_open(t)
        \/ wdi_dump(t)
        \/ wdi_verify(t)
        \/ Complete(t)

SpecPushes == PushesInit /\ [][PushesNext]_vars

\* ------------------------------- verify_webhook_signature called on its own
OneChanged(a, b) ==
    /\ Len(a) = Len(b)
    /\ Cardinality({i \in 1..Len(a) : a[i] # b[i]}) = 1

ReplacementChars == HexSet \cup {"g", NonAscii}

\* the header values tried against a digest d
VerifyHeaders(d) ==
    { None, Str(<<>>), Str(d), Str(<<"sha256">> \o d),
      Str(<<"sha1", "=">> \o d), Str(<<"sha256", "=">> \o d),
      Str(<<"sha256", "=", "=">> \o d), Str(<<"sha256", "=">> \o Slice(d, 1, Len(d) - 1)) }
    \cup { Str(<<"sha256", "=">> \o ReplaceAt(d, i, c)) :
             i \in 1..Len(d), c \in ReplacementChars }

MainIdle ==
    /\ dirExists = FALSE
    /\ deployFile = [st |-> "absent", rec |-> NoData, len |-> 0]
    /\ now = 0
    /\ nreq = 0
    /\ threads = [t \in Threads |-> Idle]
    /\ lastWriter = 0

VerifyInit ==
    /\ WEBHOOK_SECRET \in {None, Str(<<>>)} \cup SecretSet
    /\ vKey \in SecretSet
    /\ vSigned \in BodySet
    /\ vBody \in {b \in BodySet : b = vSigned \/ OneChanged(vSigned, b)}
    /\ vHeader \in VerifyHeaders(hmac_hexdigest(vKey, vSigned))
    /\ vpc = "call"
    /\ vResult = Returned("", <<>>)
    /\ MainIdle
    /\ BranchOff

VerifyCall ==
    /\ vpc = "call"
    /\ vpc' = "returned"
    /\ vResult' = verify_webhook_signature(vBody, vHeader)
    /\ UNCHANGED <<WEBHOOK_SECRET, dirExists, deployFile, now, nreq, threads, lastWriter,
                   vKey, vSigned, vBody, vHeader, bpc, bRef, bBranch>>

VerifyNext == VerifyCall

SpecVerify == VerifyInit /\ [][VerifyNext]_vars

\* ------------------------------------- the branch expression on its own
\* the pieces a ref is made of, and the refs tried
RefPieces == {"refs/", "heads/", "main"}
RefSet == UNION {[1..n -> RefPieces] : n \in 0..MaxRefLen}

BranchInit ==
    /\ WEBHOOK_SECRET = Secrets[1]
    /\ MainIdle
    /\ VerifyOff
    /\ bpc = "call"
    /\ bRef \in RefSet
    /\ bBranch = None

\* line 81 on a payload whose 'ref' is bRef
BranchCall ==
    /\ bpc = "call"
    /\ bpc' = "returned"
    /\ bBranch' = deploy_data_of(Payload("dict", [k \in {"ref"} |-> Str(bRef)]), 0).branch
    /\ UNCHANGED <<WEBHOOK_SECRET, dirExists, deployFile, now, nreq, threads, lastWriter,
                   vpc, vKey, vSigned, vBody, vHeader, vResult, bRef>>

BranchNext == BranchCall

SpecBranch == BranchInit /\ [][BranchNext]_vars

\* ------------------------------------------------------------------ claims
GoodHeader(secret, body) == Str(<<"sha256", "=">> \o hmac_hexdigest(secret, body))

\* the signature of a request verifies: the secret is set and the header is
\* sha256=<HMAC of the raw body under the secret>
SignatureVerifies(req) ==
    /\ Truthy(WEBHOOK_SECRET)
    /\ req.sig = GoodHeader(WEBHOOK_SECRET, req.body)

Busy == {t \in Threads : threads[t].pc # "idle"}
Done == {t \in Threads : threads[t].pc = "done"}
Has(steps, name) == \E i \in 1..Len(steps) : steps[i] = name
InWdi(t) == threads[t].pc \in {"wdi_check", "wdi_build", "wdi_makedirs", "wdi_open",
                               "wdi_dump", "wdi_verify"}

\* C1: a request whose signature does not verify is never parsed and never
\* reaches write_deploy_instruction, and the step that handles it leaves the
\* deploy file as it was, whatever requests came before.
C1_InvalidSignatureNoDeploy ==
    [][\A t \in Threads :
          (threads'[t] # threads[t] /\ threads'[t].pc # "idle"
              /\ ~SignatureVerifies(threads'[t].req))
          => /\ deployFile' = deployFile
             /\ threads'[t].pc = "done"
             /\ ~Has(threads'[t].steps, "get_json")
             /\ ~Has(threads'[t].steps, "write_deploy_instruction")]_vars

\* a request with a bad signature has been answered after an earlier request
\* wrote the deploy file
C1_Witness ==
    \E t \in Done :
        /\ Truthy(WEBHOOK_SECRET)
        /\ ~SignatureVerifies(threads[t].req)
        /\ threads[t].req.sig # None
        /\ deployFile.st = "data"

\* C2: with the secret configured, a request for which
\* verify_webhook_signature returns False is answered with status 401.
C2_InvalidSignature401 ==
    \A t \in Done :
        (/\ Truthy(WEBHOOK_SECRET)
         /\ Has(threads[t].steps, "verify")
         /\ verify_webhook_signature(threads[t].req.body, threads[t].req.sig).kind = "return"
         /\ verify_webhook_signature(threads[t].req.body, threads[t].req.sig).val = "False")
        => threads[t].resp.status = 401

\* C3: under a non-empty secret the header sha256=<HMAC of the body> verifies,
\* and it returns False once one character of the digest is replaced or one
\* byte of the body is changed.
C3_VerifyRoundTrip ==
    (vpc = "returned" /\ Truthy(WEBHOOK_SECRET)) =>
        /\ vHeader = GoodHeader(WEBHOOK_SECRET, vBody)
              => (vResult.kind = "return" /\ vResult.val = "True")
        /\ (\E d \in {Slice(Chars(vHeader), 3, Len(Chars(vHeader)))} :
               /\ Len(Chars(vHeader)) >= 2
               /\ Slice(Chars(vHeader), 1, 2) = <<"sha256", "=">>
               /\ OneChanged(d, hmac_hexdigest(WEBHOOK_SECRET, vBody)))
              => (vResult.kind = "return" /\ vResult.val = "False")
        /\ (vHeader = GoodHeader(WEBHOOK_SECRET, vSigned) /\ OneChanged(vSigned, vBody))
              => (vResult.kind = "return" /\ vResult.val = "False")

\* C4: the call raises the configuration error exactly when the secret is
\* unset or empty, whatever the header is; with the secret set it returns
\* False, without raising, for an absent header, a header without '=' and an
\* algorithm other than sha256.
C4_VerifyErrors ==
    vpc = "returned" =>
        /\ (vResult.kind = "raise" /\ vResult.exc[1] = "ValueError") <=> ~Truthy(WEBHOOK_SECRET)
        /\ (/\ Truthy(WEBHOOK_SECRET)
            /\ \/ vHeader = None
               \/ ~HasEq(Chars(vHeader))
               \/ Chars(vHeader)[1] # "sha256"
               \/ Chars(vHeader)[2] # "=")
           => (vResult.kind = "return" /\ vResult.val = "False")

\* the call raised the configuration error although no header was given
C4_Witness ==
    /\ vpc = "returned"
    /\ WEBHOOK_SECRET = None
    /\ vHeader = None
    /\ vResult.kind = "raise"

\* everything a request has put out so far: its log lines and its response
Outputs(t) ==
    {threads[t].out[i].text : i \in 1..Len(threads[t].out)} \cup {threads[t].resp.body}

\* C5: no log line and no response contains the secret, and none contains
\* the digest expected for the request it belongs to.
C5_NoSecretInOutput ==
    Truthy(WEBHOOK_SECRET) =>
        \A t \in Busy : \A text \in Outputs(t) :
            /\ ~Contains(text, Chars(WEBHOOK_SECRET))
            /\ ~Contains(text, hmac_hexdigest(WEBHOOK_SECRET, threads[t].req.body))

\* C6: at most one request is inside write_deploy_instruction at a time.
C6_OneDeploymentAtATime ==
    Cardinality({t \in Threads : InWdi(t)}) <= 1

\* what the caller gets when the handler calls abort(401) on a bad signature
AuthFailureResponse == webhook_except(NoRequest, abort("401 Unauthorized"), <<>>, <<>>).resp

\* C7: with the secret unset no request reaches the deployment, and the
\* response differs from the one given for an invalid signature.
C7_UnsetSecretDistinct ==
    \A t \in Done :
        ~Truthy(WEBHOOK_SECRET)
        => /\ ~Has(threads[t].steps, "write_deploy_instruction")
           /\ deployFile.st = "absent"
           /\ threads[t].resp # AuthFailureResponse

HasPrefix(chars, prefix) == Len(chars) >= Len(prefix) /\ Slice(chars, 1, Len(prefix)) = prefix
StripPrefix(chars, prefix) ==
    IF HasPrefix(chars, prefix) THEN Slice(chars, Len(prefix) + 1, Len(chars)) ELSE chars
Count(steps, name) == Cardinality({i \in 1..Len(steps) : steps[i] = name})

\* the members of an object body, as the sender wrote them
MemberOf(body, key, default) ==
    IF \E i \in 1..Len(body) : body[i].k = key
    THEN body[CHOOSE i \in 1..Len(body) : body[i].k = key].v
    ELSE default

\* a signed push whose body is a JSON object with names in it and a ref
\* refs/heads/<b>, sent as JSON
IsBranchPush(req) ==
    /\ SignatureVerifies(req)
    /\ req.event = Push
    /\ req.ctype = "application/json"
    /\ IsJsonObject(req.body)
    /\ MemberOf(req.body, "repository", None) = NameDict("r")
    /\ MemberOf(req.body, "pusher", None) = NameDict("u")
    /\ HasPrefix(Chars(MemberOf(req.body, "ref", Str(<<>>))), RefsHeads)

\* C8: a signed push with ref refs/heads/<b> calls the deployment once with
\* branch <b> and the request's repository, commit and pusher, and is
\* answered 200 'success' when the write succeeded.
C8_PushDeploysBranch ==
    \A t \in Done :
        IsBranchPush(threads[t].req)
        => /\ Count(threads[t].steps, "write_deploy_instruction") = 1
           /\ threads[t].deploy_data.branch =
                 Str(StripPrefix(Chars(MemberOf(threads[t].req.body, "ref", Str(<<>>))), RefsHeads))
           /\ threads[t].deploy_data.repository = Str(<<"r">>)
           /\ threads[t].deploy_data.author = Str(<<"u">>)
           /\ threads[t].deploy_data.commit = MemberOf(threads[t].req.body, "after", None)
           /\ Has(threads[t].steps, "returned_true")
                 => threads[t].resp = Response(200, jsonify("success", "Deployment instructions written successfully"))

\* C9: a signed request that is not a push is answered 200 and does nothing,
\* whatever its body is.
C9_NonPushIgnored ==
    \A t \in Done :
        (SignatureVerifies(threads[t].req) /\ threads[t].req.event # Push)
        => /\ threads[t].resp.status = 200
           /\ ~Has(threads[t].steps, "write_deploy_instruction")

\* C10: a signed push whose body is not valid JSON, or whose content type is
\* not JSON, is answered 400 and does not reach the deployment.
C10_BadJson400 ==
    \A t \in Done :
        (/\ SignatureVerifies(threads[t].req)
         /\ threads[t].req.event = Push
         /\ \/ threads[t].req.ctype # "application/json"
            \/ ~(IsJsonObject(threads[t].req.body) \/ threads[t].req.body = <<NULLLIT>>))
        => /\ threads[t].resp.status = 400
           /\ ~Has(threads[t].steps, "write_deploy_instruction")

\* ---------------------------------------------------------------- C11
WdiSteps == <<"wdi_check", "wdi_build", "wdi_makedirs", "wdi_open", "wdi_dump", "wdi_verify">>
FailMarks == {"build_raised", "makedirs_raised", "open_raised", "dump_raised",
              "missing", "load_raised", "mismatch"}
Failed(t) ==
    /\ threads[t].pc = "done"
    /\ Len(threads[t].steps) >= 2
    /\ threads[t].steps[Len(threads[t].steps)] \in FailMarks
\* the step of write_deploy_instruction at which the run of thread t failed
FailedStep(t) == threads[t].steps[Len(threads[t].steps) - 1]

\* C11: a run halts at its first failing step (nothing is executed after it),
\* and what is reported for the run, the 500 response, tells which step failed:
\* two runs that failed at different steps are reported differently.
C11_HaltsAndNamesStep ==
    /\ \A t \in Threads :
          \A i \in 1..Len(threads[t].steps) :
             threads[t].steps[i] \in FailMarks => i = Len(threads[t].steps) /\ threads[t].pc = "done"
    /\ \A t, u \in Threads :
          Failed(t) /\ Failed(u) /\ FailedStep(t) # FailedStep(u)
             => threads[t].resp # threads[u].resp

\* ---------------------------------------------------------------- C12
PipelineSteps == <<"source_update", "image_build", "teardown_old", "start_new">>
Succeeded(t) ==
    /\ threads[t].pc = "done"
    /\ threads[t].resp = Response(200, jsonify("success", "Deployment instructions written successfully"))
IndexIn(steps, name) == CHOOSE i \in 1..Len(steps) : steps[i] = name
\* what thread t has executed of write_deploy_instruction so far
Run(t) ==
    IF Has(threads[t].steps, "write_deploy_instruction")
    THEN Slice(threads[t].steps, IndexIn(threads[t].steps, "write_deploy_instruction") + 1, Len(threads[t].steps))
    ELSE <<>>
IsPrefix(a, b) == Len(a) <= Len(b) /\ Slice(b, 1, Len(a)) = a

C13_BranchPrefixOnce ==
    bpc = "returned" => bBranch = Str(StripPrefix(bRef, RefsHeads))

\* ---------------------------------------------------------------- C14
HasMember(body, key) == \E i \in 1..Len(body) : body[i].k = key
\* a signed push sent as JSON whose body is an object in which each of ref,
\* after, repository, pusher is either missing or of the expected shape
IsPushLackingFields(req) ==
    /\ SignatureVerifies(req)
    /\ req.event = Push
    /\ req.ctype = "application/json"
    /\ IsJsonObject(req.body)
    /\ IsStr(MemberOf(req.body, "ref", Str(<<>>)))
    /\ MemberOf(req.body, "repository", <<"dict">>)[1] = "dict"
    /\ MemberOf(req.body, "pusher", <<"dict">>)[1] = "dict"
NameIn(body, key) ==
    IF Len(MemberOf(body, key, <<"dict">>)) >= 2
    THEN Slice(MemberOf(body, key, <<"dict">>), 3, Len(MemberOf(body, key, <<"dict">>)))
    ELSE None
EmptyValues == {None, Str(<<>>)}

\* C14: an authenticated push that lacks any of ref, after, repository (or its
\* name), pusher (or its name) is not failed for that: the deployment is
\* invoked, building the record does not raise, and each missing field is
\* recorded as an empty value (null, or '' for the branch).
C14_MissingFieldsEmpty ==
    \A t \in Busy :
       IsPushLackingFields(threads[t].req) =>
          /\ Has(threads[t].steps, "write_deploy_instruction")
          /\ ~Has(threads[t].steps, "except")
          /\ ~Has(threads[t].steps, "build_raised")
          /\ Has(threads[t].steps, "wdi_build") =>
                /\ (~HasMember(threads[t].req.body, "ref") => threads[t].deploy_data.branch = Str(<<>>))
                /\ (~HasMember(threads[t].req.body, "after") => threads[t].deploy_data.commit = None)
                /\ (NameIn(threads[t].req.body, "repository") = None
                      => threads[t].deploy_data.repository = None)
                /\ (NameIn(threads[t].req.body, "pusher") = None
                      => threads[t].deploy_data.author = None)
                /\ threads[t].deploy_data.commit = MemberOf(threads[t].req.body, "after", None)
                /\ threads[t].deploy_data.repository = NameIn(threads[t].req.body, "repository")
                /\ threads[t].deploy_data.author = NameIn(threads[t].req.body, "pusher")

C14_Witness ==
    \E t \in Threads :
       /\ Succeeded(t)
       /\ threads[t].req.body = FieldBody(0, 1, 1, 0)
       /\ deployFile = Data(threads[t].deploy_data)
       /\ threads[t].deploy_data.branch \in EmptyValues
       /\ threads[t].deploy_data.repository \in EmptyValues
       /\ threads[t].deploy_data.author \in EmptyValues
       /\ threads[t].deploy_data.commit = Str(<<"c1">>)

\* ---------------------------------------------------------------- C15
\* C15: the signature is verified over the raw bytes as received and the JSON
\* decoding comes only after the verification returned True; no decoding of
\* the body ahead of the verification decides a request: one whose signature
\* verifies over its raw bytes is taken through the verification and on to the
\* JSON decoding.
C15_VerifyOnRawBytesFirst ==
    \A t \in Busy :
       /\ Has(threads[t].steps, "get_json") =>
             /\ Has(threads[t].steps, "verify")
             /\ IndexIn(threads[t].steps, "verify") < IndexIn(threads[t].steps, "get_json")
             /\ SignatureVerifies(threads[t].req)
       /\ SignatureVerifies(threads[t].req) =>
             Has(threads[t].steps, "verify") /\ Has(threads[t].steps, "get_json")

\* ---------------------------------------------------------------- C16
InternalServerError == Response(500, jsonify("error", "Internal server error"))

\* C16: a handling ends with exactly one response; an exception caught at the
\* boundary is answered 500 with the fixed generic body, which carries no
\* exception text; and an expected outcome such as an authentication failure
\* does not reach that catch-all.
C16_CatchAllOnlyUnexpected ==
    \A t \in Threads :
       /\ (threads[t].pc = "done") = (threads[t].resp # NoResponse)
       /\ Has(threads[t].steps, "except") =>
             /\ threads[t].resp = InternalServerError
             /\ \A i \in 1..Len(threads[t].out) :
                   threads[t].out[i].line = 177 =>
                      ~Contains(threads[t].resp.body, Tail(threads[t].out[i].text))
             /\ ~Has(threads[t].steps, "abort")

\* ---------------------------------------------------------------- C17
\* C17: the write of the record is atomic for every observer: once the file
\* holds a record, after every step it holds either that complete record or
\* the complete record of a request in progress, never an empty, truncated
\* or mixed file; in particular a write that fails leaves the previous
\* record in the file.
C17_AtomicWrite ==
    [][deployFile.st = "data" =>
          /\ deployFile'.st = "data"
          /\ \/ deployFile'.rec = deployFile.rec
             \/ \E t \in Threads : deployFile'.rec = threads[t].deploy_data]_vars

\* ---------------------------------------------------------------- C18
\* C18: with the requests handled one after another, the file holds at most
\* one record, always with status 'pending', and it is the record of the last
\* request whose write succeeded: a request that succeeded leaves its own
\* record, and a request that failed leaves the record it found.
C18_LastWrittenRecord ==
    /\ deployFile.st = "data" => deployFile.rec.status = "pending"
    /\ \A t \in Threads :
          /\ threads[t].deploy_data # NoData => threads[t].deploy_data.status = "pending"
          /\ Succeeded(t) => deployFile = Data(threads[t].deploy_data)
          /\ Failed(t) /\ threads[t].current_data # NoData
                => deployFile = Data(threads[t].current_data)

\* ---------------------------------------------------------------- C19
Success == Response(200, jsonify("success", "Deployment instructions written successfully"))
WriteFailed == Response(500, jsonify("error", "Failed to write deployment instructions"))
ReadsBack(t) == threads[t].pc = "wdi_verify" /\ threads'[t].pc = "done"

\* C19 as stated: a push is answered 200 'success' only if its read-back
\* returned the record built from it, and a push whose file another request
\* has written to between its own write and its read-back is answered 500.
C19_OverwrittenGets500 ==
    [][\A t \in Threads :
          ReadsBack(t) =>
             /\ (threads'[t].resp = Success => deployFile = Data(threads[t].deploy_data))
             /\ (lastWriter # t => threads'[t].resp = WriteFailed)]_vars

\* C19 amended: a push is answered 200 'success' exactly when its read-back,
\* made after its own write, returned a record equal to the one built from
\* it, and 500 otherwise; so a push whose file another request has changed
\* to something else between its write and its read-back is answered 500
\* although its own write completed, while an overwrite by an equal record
\* (same fields, same timestamp) is not noticed.
C19_SuccessIffReadBackOwn ==
    [][\A t \in Threads :
          ReadsBack(t) =>
             /\ Has(threads[t].steps, "wdi_dump")
             /\ (threads'[t].resp = Success) = (deployFile = Data(threads[t].deploy_data))
             /\ threads'[t].resp \in {Success, WriteFailed}
             /\ (lastWriter # t /\ deployFile # Data(threads[t].deploy_data)
                   => threads'[t].resp = WriteFailed)]_vars

C19_Witness ==
    \E t, u \in Threads :
       /\ t # u
       /\ Failed(t)
       /\ threads[t].steps[Len(threads[t].steps)] = "mismatch"
       /\ Has(threads[t].steps, "wdi_dump")
       /\ Succeeded(u)
       /\ lastWriter = u
       /\ deployFile = Data(threads[u].deploy_data)
====
